---- MODULE Spec2Model ----
(***************************************************************************)
(* A model of github.com/antichris/go-fuzzdump: the corpus scan DumpDir,  *)
(* the entry reader readLines and the error collection CorpusErrors.       *)
(*                                                                         *)
(* Byte strings are sequences of one-character strings.  An error value    *)
(* is a record: [t |-> "nil"] is the nil error, [t |-> "plain"] a value     *)
(* made by errors.New, [t |-> "wrap"] a value made by fmt.Errorf with %w,   *)
(* [t |-> "agg"] a CorpusErrors held in an error interface.                 *)
(***************************************************************************)
EXTENDS Integers, Sequences, FiniteSets, TLC

\* Largest number of entries in the listing of the scanned directory.
MaxFiles == 3

-----------------------------------------------------------------------------
(* Error values *)

NoErr == [t |-> "nil"]

errorsNew(text) == [t |-> "plain", k |-> text]

ErrEmptyCorpus == errorsNew("EmptyCorpus")

ErrMalformedEntry == errorsNew("MalformedEntry")

ErrUnsupportedVersion == errorsNew("UnsupportedVersion")

ErrInconsistentArgCount == errorsNew("InconsistentArgCount")

\* Failures of the three primitives (fs.ReadDir, fs.ReadFile, Writer.Write):
\* errors of the environment that wrap none of the four kinds above.
errReadDir == errorsNew("listing failure")

errReadFile == errorsNew("read failure")

errWrite == errorsNew("write failure")

\* fmt.Errorf with one %w verb: ctx is the formatted text around the wrapped
\* error, kept as a record of its parts.
Errorf(ctx, err) == [t |-> "wrap", ctx |-> ctx, inner |-> err]

\* A CorpusErrors slice es seen through the error interface.
AsIface(es) == [t |-> "agg", es |-> es]

empty(e) == Len(e) = 0

\* Go's index of the last element (0-based).
lastIndex(e) == Len(e) - 1

\* AsError that returns the collection also when it is empty.
AsError_always(e) == AsIface(e)

AsError(e) == IF empty(e) THEN NoErr ELSE AsIface(e)

\* last that takes the first element.
last_first(e) == IF empty(e) THEN NoErr ELSE e[1]

last(e) == IF empty(e) THEN NoErr ELSE e[lastIndex(e) + 1]

\* Unwrap that ends the chain at once.
Unwrap_nil(e) == NoErr

\* Unwrap that returns the shortened collection also when it is empty.
Unwrap_keepsEmpty(e) ==
    IF empty(e) THEN NoErr ELSE AsIface(SubSeq(e, 1, lastIndex(e)))

Unwrap(e) == IF empty(e) THEN NoErr ELSE AsError(SubSeq(e, 1, lastIndex(e)))

\* append that puts the error in front.
append_front(e, err) == <<err>> \o e

append(e, err) == Append(e, err)

readErr(err, fileName) ==
    IF err # NoErr
    THEN Errorf([tag |-> "reading", name |-> fileName], err)
    ELSE NoErr

writeErr(err) ==
    IF err # NoErr
    THEN Errorf([tag |-> "writing output"], err)
    ELSE NoErr

\* The counts of the message in the other order.
argCountErr_swapped(want, got) ==
    Errorf([tag |-> "want/got", want |-> got, got |-> want],
           ErrInconsistentArgCount)

\* fmt.Errorf("%w: want %d, got %d", ErrInconsistentArgCount, argCount, l)
argCountErr(want, got) ==
    Errorf([tag |-> "want/got", want |-> want, got |-> got],
           ErrInconsistentArgCount)

\* fmt.Errorf("%w: %q", ErrUnsupportedVersion, v)
versionErr(v) == Errorf([tag |-> "version", v |-> v], ErrUnsupportedVersion)

-----------------------------------------------------------------------------
(* errors.Is of the standard library, over the error values above, and     *)
(* the Is method it calls on a CorpusErrors.                               *)

RECURSIVE is(_, _)
RECURSIVE CorpusErrorsIs(_, _)

\* reflect's Comparable(): a slice is not comparable, pointers are.
isComparable(x) == x.t # "agg"

errorsUnwrap(err) ==
    CASE err.t = "wrap" -> err.inner
      [] err.t = "agg" -> Unwrap(err.es)
      [] OTHER -> NoErr

errorsIs(err, target) ==
    IF err = NoErr \/ target = NoErr
    THEN err = target
    ELSE is(err, target)

is(err, target) ==
    IF isComparable(target) /\ err = target THEN TRUE
    ELSE IF err.t = "agg" /\ CorpusErrorsIs(err.es, target) THEN TRUE
    ELSE IF err.t \in {"wrap", "agg"}
         THEN LET u == errorsUnwrap(err)
              IN  IF u = NoErr THEN FALSE ELSE is(u, target)
         ELSE FALSE

\* Is that is content with one error of target being in e.
CorpusErrorsIs_any(e, target) ==
    IF target.t = "agg"
    THEN IF empty(e) \/ empty(target.es)
         THEN empty(e) = empty(target.es)
         ELSE \E x \in 1..Len(target.es) : errorsIs(AsIface(e), target.es[x])
    ELSE errorsIs(last(e), target)

\* Is with the relaxation its TODO considers: an empty target matches any e.
CorpusErrorsIs_vacuous(e, target) ==
    IF target.t = "agg"
    THEN IF empty(e) \/ empty(target.es)
         THEN empty(target.es)
         ELSE \A x \in 1..Len(target.es) : errorsIs(AsIface(e), target.es[x])
    ELSE errorsIs(last(e), target)

\* Is that asks its own method, not errors.Is, for each error of target.
CorpusErrorsIs_methodOnly(e, target) ==
    IF target.t = "agg"
    THEN IF empty(e) \/ empty(target.es)
         THEN empty(e) = empty(target.es)
         ELSE \A x \in 1..Len(target.es) : CorpusErrorsIs(e, target.es[x])
    ELSE errorsIs(last(e), target)

CorpusErrorsIs(e, target) ==
    IF target.t = "agg"
    THEN IF empty(e) \/ empty(target.es)
         THEN empty(e) = empty(target.es)
         ELSE \A x \in 1..Len(target.es) : errorsIs(AsIface(e), target.es[x])
    ELSE errorsIs(last(e), target)

\* IsValidationError that forgets ErrInconsistentArgCount.
IsValidationError_noArgCount(err) ==
    \/ errorsIs(err, ErrMalformedEntry)
    \/ errorsIs(err, ErrUnsupportedVersion)

IsValidationError(err) ==
    \/ errorsIs(err, ErrMalformedEntry)
    \/ errorsIs(err, ErrUnsupportedVersion)
    \/ errorsIs(err, ErrInconsistentArgCount)

\* CorpusErrors.Capture: the receiver e is a sequence; the result is the
\* returned error and the receiver after the call.
RECURSIVE Capture(_, _)
RECURSIVE captureEach(_, _)

\* Capture that absorbs every error that is not ErrEmptyCorpus.
Capture_absorbing(e, err) ==
    IF err = NoErr THEN [ret |-> NoErr, e |-> e]
    ELSE IF err.t = "agg" THEN captureEach(e, err.es)
    ELSE IF errorsIs(err, ErrEmptyCorpus)
         THEN [ret |-> AsError(append(e, err)), e |-> append(e, err)]
    ELSE [ret |-> NoErr, e |-> append(e, err)]

\* Capture that hands back ErrEmptyCorpus itself instead of the receiver.
Capture_returnsCandidate(e, err) ==
    IF err = NoErr THEN [ret |-> NoErr, e |-> e]
    ELSE IF err.t = "agg" THEN captureEach(e, err.es)
    ELSE IF IsValidationError(err)
         THEN [ret |-> NoErr, e |-> append(e, err)]
    ELSE IF errorsIs(err, ErrEmptyCorpus)
         THEN [ret |-> err, e |-> append(e, err)]
    ELSE [ret |-> err, e |-> e]

\* Capture that also records the errors it passes on.
Capture_appendsOpaque(e, err) ==
    IF err = NoErr THEN [ret |-> NoErr, e |-> e]
    ELSE IF err.t = "agg" THEN captureEach(e, err.es)
    ELSE IF IsValidationError(err)
         THEN [ret |-> NoErr, e |-> append(e, err)]
    ELSE IF errorsIs(err, ErrEmptyCorpus)
         THEN [ret |-> AsError(append(e, err)), e |-> append(e, err)]
    ELSE [ret |-> err, e |-> append(e, err)]

Capture(e, err) ==
    IF err = NoErr THEN [ret |-> NoErr, e |-> e]
    ELSE IF err.t = "agg" THEN captureEach(e, err.es)
    ELSE IF IsValidationError(err)
         THEN [ret |-> NoErr, e |-> append(e, err)]
    ELSE IF errorsIs(err, ErrEmptyCorpus)
         THEN [ret |-> AsError(append(e, err)), e |-> append(e, err)]
    ELSE [ret |-> err, e |-> e]

\* A loop that captures every element and returns the first signal after it.
captureEach_noStop(e, errs) ==
    IF errs = <<>> THEN [ret |-> NoErr, e |-> e]
    ELSE LET r    == Capture(e, Head(errs))
             rest == captureEach(r.e, Tail(errs))
         IN  [ret |-> IF r.ret # NoErr THEN r.ret ELSE rest.ret, e |-> rest.e]

\* The loop of Capture over the elements of a CorpusErrors argument.
captureEach(e, errs) ==
    IF errs = <<>> THEN [ret |-> NoErr, e |-> e]
    ELSE LET r == Capture(e, Head(errs))
         IN  IF r.ret # NoErr THEN r ELSE captureEach(r.e, Tail(errs))

-----------------------------------------------------------------------------
(* The entry reader *)

LF == "\n"

CR == "\r"

TAB == "\t"

encVersion1 ==
    <<"g", "o", " ", "t", "e", "s", "t", " ", "f", "u", "z", "z", " ", "v", "1">>

\* unicode.IsSpace on the bytes that occur in the model.
isSpace(c) == c \in {" ", TAB, LF, CR, "\f"}

RECURSIVE bytesSplit(_)
\* bytes.Split(b, "\n")
bytesSplit(b) ==
    IF \A p \in 1..Len(b) : b[p] # LF THEN <<b>>
    ELSE LET p == CHOOSE q \in 1..Len(b) :
                      b[q] = LF /\ \A r \in 1..(q - 1) : b[r] # LF
         IN  <<SubSeq(b, 1, p - 1)>> \o bytesSplit(SubSeq(b, p + 1, Len(b)))

\* A trim that removes one trailing white space of any kind.
TrimSuffixCR_anySpace(s) ==
    IF Len(s) >= 1 /\ isSpace(s[Len(s)]) THEN SubSeq(s, 1, Len(s) - 1) ELSE s

\* strings.TrimSuffix(s, "\r")
TrimSuffixCR(s) ==
    IF Len(s) >= 1 /\ s[Len(s)] = CR THEN SubSeq(s, 1, Len(s) - 1) ELSE s

RECURSIVE TrimSpace(_)
\* bytes.TrimSpace
TrimSpace(v) ==
    IF Len(v) = 0 THEN v
    ELSE IF isSpace(v[1]) THEN TrimSpace(Tail(v))
    ELSE IF isSpace(v[Len(v)]) THEN TrimSpace(SubSeq(v, 1, Len(v) - 1))
    ELSE v

RECURSIVE argLines(_)
\* A loop that keeps the lines as they are in the file.
argLines_untrimmed(s) ==
    IF s = <<>> THEN <<>>
    ELSE IF Len(TrimSpace(Head(s))) = 0 THEN argLines(Tail(s))
    ELSE <<Head(s)>> \o argLines(Tail(s))

\* The loop of readLines over the lines after the first.
argLines(s) ==
    IF s = <<>> THEN <<>>
    ELSE LET line == TrimSpace(Head(s))
         IN  IF Len(line) = 0 THEN argLines(Tail(s))
             ELSE <<line>> \o argLines(Tail(s))

\* fs.ReadFile: fsys is the sequence of directory entries, name an index.
ReadFile(fsys, name) ==
    IF fsys[name].fails
    THEN [b |-> <<>>, err |-> errReadFile]
    ELSE [b |-> fsys[name].data, err |-> NoErr]

\* A decoding that looks at the version before it counts the lines.
parseLines_versionFirst(b) ==
    LET s == bytesSplit(b)
        v == TrimSuffixCR(s[1])
    IN  IF v # encVersion1 THEN [lines |-> <<>>, err |-> versionErr(v)]
        ELSE IF Len(s) < 2 THEN [lines |-> <<>>, err |-> ErrMalformedEntry]
        ELSE LET lines == argLines(Tail(s))
             IN  IF Len(lines) < 1
                 THEN [lines |-> <<>>, err |-> ErrMalformedEntry]
                 ELSE [lines |-> lines, err |-> NoErr]

\* readLines after the file was read: the decoding of the bytes b.
parseLines(b) ==
    LET s == bytesSplit(b)
    IN  IF Len(s) < 2 THEN [lines |-> <<>>, err |-> ErrMalformedEntry]
        ELSE LET v == TrimSuffixCR(s[1])
             IN  IF v # encVersion1
                 THEN [lines |-> <<>>, err |-> versionErr(v)]
                 ELSE LET lines == argLines(Tail(s))
                      IN  IF Len(lines) < 1
                          THEN [lines |-> <<>>, err |-> ErrMalformedEntry]
                          ELSE [lines |-> lines, err |-> NoErr]

readLines(fsys, name) ==
    LET file == ReadFile(fsys, name)
    IN  IF file.err # NoErr THEN [lines |-> <<>>, err |-> file.err]
        ELSE parseLines(file.b)

-----------------------------------------------------------------------------
(* The output formatter *)

sigleArgSep == [Pre |-> <<"{">>, In |-> <<>>, Post |-> <<"}">>]

multiArgSep ==
    [Pre |-> <<"{", "{">>, In |-> <<"}", ",", " ", "{">>, Post |-> <<"}", "}">>]

\* The bytes fmt.Fprintln(w, s) hands to w.Write in one call.
Fprintln(s) == s \o <<LF>>

\* The bytes fmt.Fprintf(w, "\t%s,\n", v) hands to w.Write in one call.
FprintfLine(v) == <<TAB>> \o v \o <<",", LF>>

\* What one call of w.Write(b) can do: write all of b and return nil, or
\* write the first n bytes of b, 0 <= n <= len(b), and return an error.
WriteResults(b) ==
    {[n |-> Len(b), err |-> NoErr]}
        \cup {[n |-> k, err |-> errWrite] : k \in 0..Len(b)}

-----------------------------------------------------------------------------
(* The scanned file system *)

\* Entry files as the tests build them: version line, contents, line feed.
corpusFile(contents) == encVersion1 \o <<LF>> \o contents \o <<LF>>

\* File contents the directory entries are drawn from: not an entry at all,
\* an unknown version, a version without values, entries of one, two and
\* three values with blank lines, a carriage return and padding.
FileData ==
    { <<>>,
      <<"f", LF>>,
      encVersion1 \o <<LF>>,
      corpusFile(<<"a">>),
      corpusFile(<<LF, "b", LF>>),
      encVersion1 \o <<CR, LF, " ", "a", LF, TAB, "c", " ", "d", " ">>,
      corpusFile(<<"a", LF, "b", LF, "c">>) }

Entries ==
    {[regular |-> FALSE, fails |-> FALSE, data |-> <<>>],
     [regular |-> TRUE, fails |-> TRUE, data |-> <<>>]}
        \cup {[regular |-> TRUE, fails |-> FALSE, data |-> d] : d \in FileData}

Listings == UNION {[1..n -> Entries] : n \in 0..MaxFiles}

-----------------------------------------------------------------------------
(* DumpDir as a state machine: one step per call of a primitive            *)
(* (fs.ReadDir, fs.ReadFile, Writer.Write), together with everything the   *)
(* code does up to the next such call or the return.                       *)

VARIABLES
    fsys,       \* the directory: [listErr, entries]; a file's name is its index
    out,        \* the bytes the sink w holds
    io,         \* the calls of the primitives so far, in order
    pc,         \* the next primitive DumpDir calls, or "done" / "panic"
    ret,        \* the error DumpDir returned (meaningful when pc = "done")
    errs,       \* DumpDir's errs
    ferrs,      \* firstValidFileLines's errs
    derrs,      \* dumpFiles's errs
    files,      \* DumpDir's files
    lines,      \* the lines being dumped
    argCount,   \* DumpDir's argCount
    seps,       \* DumpDir's seps
    i,          \* firstValidFileLines's i
    f,          \* dumpFiles: how many of files[1:] the loop has taken
    j,          \* dumpLines: how many of lines the loop has written
    inFiles,    \* TRUE when dumpLines was called from dumpFiles
    call,       \* the last call made on a CorpusErrors value by itself
    args,       \* the command line: the program's path, then its arguments
    exitCode,   \* the exit code of the command (meaningful when pc = "exit")
    stdErr,     \* the lines the command has printed to its error stream
    aggs        \* the CorpusErrors literals that are matched with each other

vars ==
    <<fsys, out, io, pc, ret, errs, ferrs, derrs, files, lines, argCount,
      seps, i, f, j, inFiles, call, args, exitCode, stdErr, aggs>>

\* The local state of DumpDir and its callees as one record.
Locals ==
    [pc |-> pc, ret |-> ret, errs |-> errs, ferrs |-> ferrs, derrs |-> derrs,
     files |-> files, lines |-> lines, argCount |-> argCount, seps |-> seps,
     i |-> i, f |-> f, j |-> j, inFiles |-> inFiles]

Set(s) ==
    /\ pc' = s.pc
    /\ ret' = s.ret
    /\ errs' = s.errs
    /\ ferrs' = s.ferrs
    /\ derrs' = s.derrs
    /\ files' = s.files
    /\ lines' = s.lines
    /\ argCount' = s.argCount
    /\ seps' = s.seps
    /\ i' = s.i
    /\ f' = s.f
    /\ j' = s.j
    /\ inFiles' = s.inFiles

\* DumpDir returns err.
return(s, err) == [s EXCEPT !.pc = "done", !.ret = err]

\* A DumpDir that returns after dumpFiles without writing seps.Post.
afterDumpFiles_noPost(s, err) ==
    LET c == Capture(s.errs, err)
    IN  IF c.ret # NoErr
        THEN return([s EXCEPT !.errs = c.e], c.ret)
        ELSE return([s EXCEPT !.errs = c.e], AsError(c.e))

\* DumpDir after dumpFiles returned err: Capture it, then write seps.Post.
afterDumpFiles(s, err) ==
    LET c == Capture(s.errs, err)
    IN  IF c.ret # NoErr
        THEN return([s EXCEPT !.errs = c.e], c.ret)
        ELSE [s EXCEPT !.errs = c.e, !.pc = "post"]

\* A loop of dumpFiles that ends at the first captured error.
dumpFilesLoop_stopOnError(s) ==
    IF s.f < Len(s.files) - 1 /\ empty(s.derrs)
    THEN [s EXCEPT !.pc = "dumpFiles"]
    ELSE afterDumpFiles(s, AsError(s.derrs))

\* The head of the loop of dumpFiles, s.f files of files[1:] taken.
dumpFilesLoop(s) ==
    IF s.f < Len(s.files) - 1
    THEN [s EXCEPT !.pc = "dumpFiles"]
    ELSE afterDumpFiles(s, AsError(s.derrs))

\* dumpLines returned nil: in DumpDir the call of dumpFiles on files[1:]
\* follows, in dumpFiles the next file.
linesDone(s) ==
    IF ~s.inFiles
    THEN IF Len(s.files) < 1
         THEN [s EXCEPT !.pc = "panic"]
         ELSE dumpFilesLoop([s EXCEPT !.inFiles = TRUE, !.derrs = <<>>, !.f = 0])
    ELSE dumpFilesLoop([s EXCEPT !.f = s.f + 1])

\* The call dumpLines(w, ls).
dumpLines(s, ls) ==
    IF Len(ls) = 0
    THEN linesDone([s EXCEPT !.lines = ls])
    ELSE [s EXCEPT !.lines = ls, !.j = 0, !.pc = "dumpLines"]

\* A failed write reported together with the errors captured so far.
writeFailed_keepErrs(s, err) ==
    return(s, AsError(s.errs \o s.derrs \o <<err>>))

\* dumpLines or the separator write failed with err (already wrapped).
writeFailed(s, err) ==
    IF s.inFiles THEN afterDumpFiles(s, err) ELSE return(s, err)

\* The grouped delimiters chosen for every arity.
afterFirstValid_alwaysMulti(s, ls, fs, err) ==
    LET c == Capture(s.errs, err)
    IN  IF c.ret # NoErr
        THEN return([s EXCEPT !.errs = c.e], c.ret)
        ELSE [s EXCEPT !.errs = c.e, !.lines = ls, !.files = fs,
                       !.argCount = Len(ls),
                       !.seps = multiArgSep,
                       !.pc = "pre"]

\* DumpDir after firstValidFileLines returned (ls, fs, err).
afterFirstValid(s, ls, fs, err) ==
    LET c == Capture(s.errs, err)
    IN  IF c.ret # NoErr
        THEN return([s EXCEPT !.errs = c.e], c.ret)
        ELSE [s EXCEPT !.errs = c.e, !.lines = ls, !.files = fs,
                       !.argCount = Len(ls),
                       !.seps = IF Len(ls) > 1 THEN multiArgSep
                                ELSE sigleArgSep,
                       !.pc = "pre"]

\* ErrEmptyCorpus returned bare, without the errors captured before it.
noValidFile_bare(s) == afterFirstValid(s, <<>>, <<>>, ErrEmptyCorpus)

\* The end of the loop of firstValidFileLines with s.i = len(allFiles).
noValidFile(s) ==
    LET c == Capture(s.ferrs, ErrEmptyCorpus)
    IN  afterFirstValid([s EXCEPT !.ferrs = c.e], <<>>, <<>>, c.ret)

\* getFiles without the filter.
regularFiles_all(entries) == [x \in 1..Len(entries) |-> x]

\* getFiles's filter: the names of the regular files, in listing order.
regularFiles(entries) ==
    SelectSeq([x \in 1..Len(entries) |-> x], LAMBDA x : entries[x].regular)

\* A DumpDir that returns the failure of the listing with context.
afterListing_wrapped(s, err, fs) ==
    IF err # NoErr THEN return(s, Errorf([tag |-> "listing"], err))
    ELSE IF Len(fs) = 0 THEN return(s, ErrEmptyCorpus)
    ELSE [s EXCEPT !.files = fs, !.i = 0, !.ferrs = <<>>, !.pc = "firstValid"]

\* DumpDir after getFiles returned fs and err: the early returns of
\* corpusFiles and DumpDir, or the start of firstValidFileLines.
afterListing(s, err, fs) ==
    IF err # NoErr THEN return(s, err)
    ELSE IF Len(fs) = 0 THEN return(s, ErrEmptyCorpus)
    ELSE [s EXCEPT !.files = fs, !.i = 0, !.ferrs = <<>>, !.pc = "firstValid"]

Init ==
    /\ fsys \in {[listErr |-> b, entries |-> l] : b \in BOOLEAN, l \in Listings}
    /\ out = <<>>
    /\ io = <<>>
    /\ pc = "corpusFiles"
    /\ ret = NoErr
    /\ errs = <<>>
    /\ ferrs = <<>>
    /\ derrs = <<>>
    /\ files = <<>>
    /\ lines = <<>>
    /\ argCount = 0
    /\ seps = sigleArgSep
    /\ i = 0
    /\ f = 0
    /\ j = 0
    /\ inFiles = FALSE
    /\ call = [op |-> "none"]
    /\ args = <<>>
    /\ exitCode = 0
    /\ stdErr = <<>>
    /\ aggs = <<>>

\* corpusFiles, getFiles: list the directory.
CorpusFiles ==
    /\ pc = "corpusFiles"
    /\ LET err == IF fsys.listErr THEN errReadDir ELSE NoErr
           fs  == regularFiles(fsys.entries)
       IN  /\ io' = Append(io, [op |-> "list", err |-> err])
           /\ Set(afterListing(Locals, err, fs))
    /\ UNCHANGED <<fsys, out, call, args, exitCode, stdErr, aggs>>

\* One turn of the loop of firstValidFileLines.
FirstValidRead ==
    /\ pc = "firstValid"
    /\ i < Len(files)
    /\ LET name == files[i + 1]
           r    == readLines(fsys.entries, name)
           c    == Capture(ferrs, readErr(r.err, name))
           s    == [Locals EXCEPT !.ferrs = c.e]
       IN  /\ io' = Append(io, [op |-> "read", name |-> name,
                                err |-> ReadFile(fsys.entries, name).err])
           /\ Set(IF r.err = NoErr
                  THEN afterFirstValid(Locals, r.lines,
                                       SubSeq(files, i + 1, Len(files)),
                                       AsError(ferrs))
                  ELSE IF c.ret # NoErr
                  THEN afterFirstValid(s, <<>>, <<>>, c.ret)
                  ELSE IF i + 1 = Len(files)
                  THEN noValidFile([s EXCEPT !.i = i + 1])
                  ELSE [s EXCEPT !.i = i + 1])
    /\ UNCHANGED <<fsys, out, call, args, exitCode, stdErr, aggs>>

\* fmt.Fprintln(w, seps.Pre)
WritePre ==
    /\ pc = "pre"
    /\ \E w \in WriteResults(Fprintln(seps.Pre)) :
          /\ out' = out \o SubSeq(Fprintln(seps.Pre), 1, w.n)
          /\ io' = Append(io, [op |-> "write", b |-> Fprintln(seps.Pre),
                               n |-> w.n, err |-> w.err])
          /\ Set(IF w.err # NoErr THEN return(Locals, writeErr(w.err))
                 ELSE dumpLines([Locals EXCEPT !.inFiles = FALSE], lines))
    /\ UNCHANGED <<fsys, call, args, exitCode, stdErr, aggs>>

\* One turn of the loop of dumpLines.
DumpLine ==
    /\ pc = "dumpLines"
    /\ j < Len(lines)
    /\ \E w \in WriteResults(FprintfLine(lines[j + 1])) :
          /\ out' = out \o SubSeq(FprintfLine(lines[j + 1]), 1, w.n)
          /\ io' = Append(io, [op |-> "write", b |-> FprintfLine(lines[j + 1]),
                               n |-> w.n, err |-> w.err])
          /\ Set(IF w.err # NoErr THEN writeFailed(Locals, writeErr(w.err))
                 ELSE IF j + 1 = Len(lines)
                 THEN linesDone([Locals EXCEPT !.j = j + 1])
                 ELSE [Locals EXCEPT !.j = j + 1])
    /\ UNCHANGED <<fsys, call, args, exitCode, stdErr, aggs>>

\* A loop body that skips only the entries with fewer values than argCount.
fileRead_skipSmaller(s, name, r) ==
    LET c == Capture(s.derrs, readErr(r.err, name))
        l == Len(r.lines)
    IN  IF r.err # NoErr
        THEN IF c.ret # NoErr
             THEN afterDumpFiles([s EXCEPT !.derrs = c.e], c.ret)
             ELSE dumpFilesLoop([s EXCEPT !.derrs = c.e, !.f = s.f + 1])
        ELSE IF l < s.argCount
        THEN dumpFilesLoop(
                 [s EXCEPT !.derrs = append(s.derrs,
                               readErr(argCountErr(s.argCount, l), name)),
                           !.f = s.f + 1])
        ELSE IF s.argCount > 1
        THEN [s EXCEPT !.lines = r.lines, !.pc = "sep"]
        ELSE dumpLines(s, r.lines)

\* The body of the loop of dumpFiles after readLines returned r for the
\* file name, up to the first write.
fileRead(s, name, r) ==
    LET c == Capture(s.derrs, readErr(r.err, name))
        l == Len(r.lines)
    IN  IF r.err # NoErr
        THEN IF c.ret # NoErr
             THEN afterDumpFiles([s EXCEPT !.derrs = c.e], c.ret)
             ELSE dumpFilesLoop([s EXCEPT !.derrs = c.e, !.f = s.f + 1])
        ELSE IF l # s.argCount
        THEN dumpFilesLoop(
                 [s EXCEPT !.derrs = append(s.derrs,
                               readErr(argCountErr(s.argCount, l), name)),
                           !.f = s.f + 1])
        ELSE IF s.argCount > 1
        THEN [s EXCEPT !.lines = r.lines, !.pc = "sep"]
        ELSE dumpLines(s, r.lines)

\* A loop of dumpFiles that was handed files instead of files[1:].
DumpFilesRead_fromFirst ==
    /\ pc = "dumpFiles"
    /\ LET name == files[f + 1]
       IN  /\ io' = Append(io, [op |-> "read", name |-> name,
                                err |-> ReadFile(fsys.entries, name).err])
           /\ Set(fileRead(Locals, name, readLines(fsys.entries, name)))
    /\ UNCHANGED <<fsys, out, call, args, exitCode, stdErr, aggs>>

\* One turn of the loop of dumpFiles: read the next of files[1:].
DumpFilesRead ==
    /\ pc = "dumpFiles"
    /\ LET name == files[f + 2]
       IN  /\ io' = Append(io, [op |-> "read", name |-> name,
                                err |-> ReadFile(fsys.entries, name).err])
           /\ Set(fileRead(Locals, name, readLines(fsys.entries, name)))
    /\ UNCHANGED <<fsys, out, call, args, exitCode, stdErr, aggs>>

\* fmt.Fprintln(w, multiArgSep.In)
WriteSep ==
    /\ pc = "sep"
    /\ \E w \in WriteResults(Fprintln(multiArgSep.In)) :
          /\ out' = out \o SubSeq(Fprintln(multiArgSep.In), 1, w.n)
          /\ io' = Append(io, [op |-> "write", b |-> Fprintln(multiArgSep.In),
                               n |-> w.n, err |-> w.err])
          /\ Set(IF w.err # NoErr THEN writeFailed(Locals, writeErr(w.err))
                 ELSE dumpLines(Locals, lines))
    /\ UNCHANGED <<fsys, call, args, exitCode, stdErr, aggs>>

\* fmt.Fprintln(w, seps.Post) and the return of errs.AsError().
WritePost ==
    /\ pc = "post"
    /\ \E w \in WriteResults(Fprintln(seps.Post)) :
          /\ out' = out \o SubSeq(Fprintln(seps.Post), 1, w.n)
          /\ io' = Append(io, [op |-> "write", b |-> Fprintln(seps.Post),
                               n |-> w.n, err |-> w.err])
          /\ Set(IF w.err # NoErr THEN return(Locals, writeErr(w.err))
                 ELSE return(Locals, AsError(errs)))
    /\ UNCHANGED <<fsys, call, args, exitCode, stdErr, aggs>>

Next ==
    \/ CorpusFiles
    \/ FirstValidRead
    \/ WritePre
    \/ DumpLine
    \/ DumpFilesRead
    \/ WriteSep
    \/ WritePost

Spec == Init /\ [][Next]_vars

-----------------------------------------------------------------------------
(* The command: shellIface(realMain) with DumpDir on the directory named    *)
(* by the first argument.  A path is the sequence of its elements, the     *)
(* empty path the empty sequence.                                           *)

ExitSuccess == 0

ExitSoft == 1

ExitEmptyCorpus == 2

ExitHard == 3

errNoDirArg == errorsNew("directory path argument required")

\* path.Base
pathBase(p) == IF Len(p) = 0 THEN "." ELSE p[Len(p)]

\* A switch that looks for a validation error first.
exitCodeOf_validationFirst(err) ==
    IF err = NoErr THEN ExitSuccess
    ELSE IF IsValidationError(err) THEN ExitSoft
    ELSE IF errorsIs(err, ErrEmptyCorpus) THEN ExitEmptyCorpus
    ELSE ExitHard

\* The exit code shellIface returns for the error err of fn.
exitCodeOf(err) ==
    IF err = NoErr THEN ExitSuccess
    ELSE IF errorsIs(err, ErrEmptyCorpus) THEN ExitEmptyCorpus
    ELSE IF IsValidationError(err) THEN ExitSoft
    ELSE ExitHard

\* The command lines: no argument, an empty one, a directory.
CommandLines ==
    {<<(<<"foo", "bar">>)>>,
     <<(<<"foo", "bar">>), <<>>>>,
     <<(<<"foo", "bar">>), <<"corpus">>>>}

InitMain ==
    /\ fsys \in {[listErr |-> b, entries |-> l] : b \in BOOLEAN, l \in Listings}
    /\ out = <<>>
    /\ io = <<>>
    /\ pc = "realMain"
    /\ ret = NoErr
    /\ errs = <<>>
    /\ ferrs = <<>>
    /\ derrs = <<>>
    /\ files = <<>>
    /\ lines = <<>>
    /\ argCount = 0
    /\ seps = sigleArgSep
    /\ i = 0
    /\ f = 0
    /\ j = 0
    /\ inFiles = FALSE
    /\ call = [op |-> "none"]
    /\ args \in CommandLines
    /\ exitCode = 0
    /\ stdErr = <<>>
    /\ aggs = <<>>

\* shellIface calls fn(stdOut, args[1:]): realMain up to its call of DumpDir.
RealMain ==
    /\ pc = "realMain"
    /\ LET a == SubSeq(args, 2, Len(args))
       IN  Set(IF Len(a) = 0 \/ Len(a[1]) = 0
               THEN return(Locals, errNoDirArg)
               ELSE [Locals EXCEPT !.pc = "corpusFiles"])
    /\ UNCHANGED <<fsys, out, io, call, args, exitCode, stdErr, aggs>>

\* shellIface after fn returned: print the error, choose the exit code.
ShellIface ==
    /\ pc = "done"
    /\ Len(args) >= 1
    /\ pc' = "exit"
    /\ stdErr' = IF ret # NoErr
                 THEN Append(stdErr, [prog |-> pathBase(args[1]), err |-> ret])
                 ELSE stdErr
    /\ exitCode' = exitCodeOf(ret)
    /\ UNCHANGED <<fsys, out, io, ret, errs, ferrs, derrs, files, lines,
                   argCount, seps, i, f, j, inFiles, call, args, aggs>>

NextMain ==
    \/ RealMain
    \/ CorpusFiles
    \/ FirstValidRead
    \/ WritePre
    \/ DumpLine
    \/ DumpFilesRead
    \/ WriteSep
    \/ WritePost
    \/ ShellIface

SpecMain == InitMain /\ [][NextMain]_vars

-----------------------------------------------------------------------------
(* A CorpusErrors value used by itself: errs is the receiver, and call     *)
(* records the last method call with its argument and result.              *)

\* Largest length of the receiver before a call of Capture.
MaxErrs == 3

\* The errors Capture is called with: nil, the four kinds, a failure of a
\* primitive, the same with context, and collections of them.
CaptureArgs ==
    {NoErr, ErrEmptyCorpus, ErrMalformedEntry, ErrUnsupportedVersion,
     ErrInconsistentArgCount, errReadFile,
     readErr(ErrMalformedEntry, 1),
     readErr(argCountErr(1, 2), 2),
     readErr(ErrEmptyCorpus, 1),
     readErr(errReadFile, 1),
     AsIface(<<>>),
     AsIface(<<ErrMalformedEntry>>),
     AsIface(<<ErrUnsupportedVersion, ErrEmptyCorpus>>),
     AsIface(<<ErrEmptyCorpus, ErrMalformedEntry>>),
     AsIface(<<readErr(versionErr(<<"f">>), 1), errReadFile,
               ErrMalformedEntry>>),
     AsIface(<<errReadFile>>)}

InitErrors ==
    /\ fsys = [listErr |-> FALSE, entries |-> <<>>]
    /\ out = <<>>
    /\ io = <<>>
    /\ pc = "errors"
    /\ ret = NoErr
    /\ errs = <<>>
    /\ ferrs = <<>>
    /\ derrs = <<>>
    /\ files = <<>>
    /\ lines = <<>>
    /\ argCount = 0
    /\ seps = sigleArgSep
    /\ i = 0
    /\ f = 0
    /\ j = 0
    /\ inFiles = FALSE
    /\ call = [op |-> "none"]
    /\ args = <<>>
    /\ exitCode = 0
    /\ stdErr = <<>>
    /\ aggs = <<>>

\* errs.Capture(err)
CaptureCall ==
    /\ pc = "errors"
    /\ Len(errs) < MaxErrs
    /\ \E err \in CaptureArgs :
          /\ errs' = Capture(errs, err).e
          /\ call' = [op |-> "Capture", recv |-> errs, err |-> err,
                      ret |-> Capture(errs, err).ret]
    /\ UNCHANGED <<fsys, out, io, pc, ret, ferrs, derrs, files, lines,
                   argCount, seps, i, f, j, inFiles, args, exitCode, stdErr, aggs>>

NextErrors == CaptureCall

SpecErrors == InitErrors /\ [][NextErrors]_vars

-----------------------------------------------------------------------------
(* errors.Is and Unwrap on a CorpusErrors literal: errs is the receiver,   *)
(* call records the one call made on it with its target and results.       *)
(* Every record of the universe stands for one error value (one pointer).  *)

\* Largest length of a receiver literal.
MaxRecv == 3

\* Largest length of an aggregate target.
MaxTarget == 3

\* The elements of the literals: two kinds, an error of no kind (the tests'
\* errSnap) and a kind wrapped with context.
ErrUniverse ==
    {ErrMalformedEntry, ErrUnsupportedVersion, errReadFile,
     readErr(ErrMalformedEntry, 1)}

SeqsUpTo(S, n) == UNION {[1..k -> S] : k \in 0..n}

\* The targets: the elements, errors that are in no receiver, and aggregates.
IsTargets ==
    ErrUniverse
        \cup {ErrEmptyCorpus, readErr(ErrMalformedEntry, 2),
              writeErr(readErr(ErrMalformedEntry, 1))}
        \cup {AsIface(es) : es \in SeqsUpTo(ErrUniverse, MaxTarget)}

InitIs ==
    /\ fsys = [listErr |-> FALSE, entries |-> <<>>]
    /\ out = <<>>
    /\ io = <<>>
    /\ pc = "is"
    /\ ret = NoErr
    /\ errs \in SeqsUpTo(ErrUniverse, MaxRecv)
    /\ ferrs = <<>>
    /\ derrs = <<>>
    /\ files = <<>>
    /\ lines = <<>>
    /\ argCount = 0
    /\ seps = sigleArgSep
    /\ i = 0
    /\ f = 0
    /\ j = 0
    /\ inFiles = FALSE
    /\ call = [op |-> "none"]
    /\ args = <<>>
    /\ exitCode = 0
    /\ stdErr = <<>>
    /\ aggs = <<>>

\* errs.Is(target), and errors.Is(errs, target) which walks errs.Unwrap().
IsCall ==
    /\ pc = "is"
    /\ \E target \in IsTargets :
          call' = [op |-> "Is", recv |-> errs, target |-> target,
                   ret |-> CorpusErrorsIs(errs, target),
                   generic |-> errorsIs(AsIface(errs), target)]
    /\ pc' = "returned"
    /\ UNCHANGED <<fsys, out, io, ret, errs, ferrs, derrs, files, lines,
                   argCount, seps, i, f, j, inFiles, args, exitCode, stdErr, aggs>>

\* errs.Unwrap()
UnwrapCall ==
    /\ pc = "is"
    /\ call' = [op |-> "Unwrap", recv |-> errs, ret |-> Unwrap(errs)]
    /\ pc' = "returned"
    /\ UNCHANGED <<fsys, out, io, ret, errs, ferrs, derrs, files, lines,
                   argCount, seps, i, f, j, inFiles, args, exitCode, stdErr, aggs>>

NextIs == IsCall \/ UnwrapCall

SpecIs == InitIs /\ [][NextIs]_vars

-----------------------------------------------------------------------------
(* readLines by itself: fsys holds one file, call records the one call     *)
(* with its results.                                                        *)

\* Largest number of bytes after the first line feed of the file.
MaxTail == 5

\* First lines: none, an unknown one, the version, the version with one and
\* two carriage returns, with padding, in another case, cut short.
FirstLines ==
    { <<>>,
      <<"f">>,
      encVersion1,
      encVersion1 \o <<CR>>,
      encVersion1 \o <<CR, CR>>,
      encVersion1 \o <<" ">>,
      encVersion1 \o <<TAB, CR>>,
      <<" ">> \o encVersion1,
      [encVersion1 EXCEPT ![1] = "G"],
      SubSeq(encVersion1, 1, Len(encVersion1) - 1) }

\* The bytes after the first line feed.
TailBytes == {"a", " ", TAB, LF, CR}

\* File contents: a first line alone, or a first line, a line feed and a tail.
Contents ==
    FirstLines
        \cup {l \o <<LF>> \o t : l \in FirstLines,
                                 t \in SeqsUpTo(TailBytes, MaxTail)}

InitRead ==
    /\ fsys \in {[listErr |-> FALSE, entries |-> <<e>>] :
                    e \in {[regular |-> TRUE, fails |-> TRUE, data |-> <<>>]}
                        \cup {[regular |-> TRUE, fails |-> FALSE, data |-> b] :
                                  b \in Contents}}
    /\ out = <<>>
    /\ io = <<>>
    /\ pc = "readLines"
    /\ ret = NoErr
    /\ errs = <<>>
    /\ ferrs = <<>>
    /\ derrs = <<>>
    /\ files = <<>>
    /\ lines = <<>>
    /\ argCount = 0
    /\ seps = sigleArgSep
    /\ i = 0
    /\ f = 0
    /\ j = 0
    /\ inFiles = FALSE
    /\ call = [op |-> "none"]
    /\ args = <<>>
    /\ exitCode = 0
    /\ stdErr = <<>>
    /\ aggs = <<>>

\* readLines(fsys, name) for the one file.
ReadLinesCall ==
    /\ pc = "readLines"
    /\ LET r == readLines(fsys.entries, 1)
       IN  call' = [op |-> "readLines", name |-> 1,
                    lines |-> r.lines, err |-> r.err]
    /\ io' = Append(io, [op |-> "read", name |-> 1,
                         err |-> ReadFile(fsys.entries, 1).err])
    /\ pc' = "returned"
    /\ UNCHANGED <<fsys, out, ret, errs, ferrs, derrs, files, lines, argCount,
                   seps, i, f, j, inFiles, args, exitCode, stdErr, aggs>>

NextRead == ReadLinesCall

SpecRead == InitRead /\ [][NextRead]_vars

-----------------------------------------------------------------------------
(* errors.Is between CorpusErrors literals: aggs holds three of them, call *)
(* records the result of errors.Is for every pair.                         *)

\* Largest length of a literal that is matched with another.
MaxAgg == 2

\* The elements: two kinds, one of them with context once and twice.
MatchUniverse ==
    {ErrMalformedEntry, ErrUnsupportedVersion,
     readErr(ErrMalformedEntry, 1),
     writeErr(readErr(ErrMalformedEntry, 1))}

InitMatch ==
    /\ fsys = [listErr |-> FALSE, entries |-> <<>>]
    /\ out = <<>>
    /\ io = <<>>
    /\ pc = "match"
    /\ ret = NoErr
    /\ errs = <<>>
    /\ ferrs = <<>>
    /\ derrs = <<>>
    /\ files = <<>>
    /\ lines = <<>>
    /\ argCount = 0
    /\ seps = sigleArgSep
    /\ i = 0
    /\ f = 0
    /\ j = 0
    /\ inFiles = FALSE
    /\ call = [op |-> "none"]
    /\ args = <<>>
    /\ exitCode = 0
    /\ stdErr = <<>>
    /\ aggs \in [1..3 -> SeqsUpTo(MatchUniverse, MaxAgg)]

\* errors.Is(aggs[a], aggs[b]) for every a and b.
MatchCall ==
    /\ pc = "match"
    /\ call' = [op |-> "match",
                m |-> [a \in 1..3 |->
                         [b \in 1..3 |->
                            errorsIs(AsIface(aggs[a]), AsIface(aggs[b]))]]]
    /\ pc' = "returned"
    /\ UNCHANGED <<fsys, out, io, ret, errs, ferrs, derrs, files, lines,
                   argCount, seps, i, f, j, inFiles, args, exitCode, stdErr,
                   aggs>>

NextMatch == MatchCall

SpecMatch == InitMatch /\ [][NextMatch]_vars

-----------------------------------------------------------------------------
(* Vocabulary of the properties: the scanned directory as the caller sees  *)
(* it, stated without the operators of the scan.                           *)

RECURSIVE regularFrom(_)
regularFrom(x) ==
    IF x > Len(fsys.entries) THEN <<>>
    ELSE (IF fsys.entries[x].regular THEN <<x>> ELSE <<>>) \o regularFrom(x + 1)

\* The names of the regular files, in listing order.
Regulars == regularFrom(1)

Decoded(x) == parseLines(fsys.entries[x].data)

Validates(x) == ~fsys.entries[x].fails /\ Decoded(x).err = NoErr

FailsValidation(x) == ~fsys.entries[x].fails /\ Decoded(x).err # NoErr

ArgCountOf(x) == Len(Decoded(x).lines)

HasValid == \E p \in 1..Len(Regulars) : Validates(Regulars[p])

FirstValidPos ==
    CHOOSE p \in 1..Len(Regulars) :
        Validates(Regulars[p]) /\ \A q \in 1..(p - 1) : ~Validates(Regulars[q])

Arity == ArgCountOf(Regulars[FirstValidPos])

\* A file after the first valid one that validates with another count.
Mismatched(p) ==
    /\ p > FirstValidPos
    /\ Validates(Regulars[p])
    /\ ArgCountOf(Regulars[p]) # Arity

Matching ==
    SelectSeq(Regulars, LAMBDA x : Validates(x) /\ ArgCountOf(x) = Arity)

Done == pc = "done"

\* No call of a primitive has failed.
IoOk == \A k \in 1..Len(io) : io[k].err = NoErr

\* DumpDir ran to its end: it returned, no primitive failed, a file was valid.
Completed == Done /\ IoOk /\ HasValid

\* The names of the files read so far, in order.
Reads == SelectSeq(io, LAMBDA ev : ev.op = "read")

RECURSIVE ValueLines(_)
ValueLines(ls) ==
    IF ls = <<>> THEN <<>>
    ELSE <<"\t">> \o Head(ls) \o <<",", "\n">> \o ValueLines(Tail(ls))

RECURSIVE EntriesText(_, _)
\* The value lines of the entries ms, sep before every entry but the first.
EntriesText(ms, sep) ==
    IF ms = <<>> THEN <<>>
    ELSE ValueLines(Decoded(Head(ms)).lines)
             \o (IF Tail(ms) = <<>> THEN <<>> ELSE sep)
             \o EntriesText(Tail(ms), sep)

FlatRendering == <<"{", "\n">> \o EntriesText(Matching, <<>>) \o <<"}", "\n">>

GroupedRendering ==
    <<"{", "{", "\n">>
        \o EntriesText(Matching, <<"}", ",", " ", "{", "\n">>)
        \o <<"}", "}", "\n">>

\* The InconsistentArgCount error of file x: 'reading x: ...: want w, got g'.
ArgCountErrorOf(x, w, g) ==
    [t |-> "wrap", ctx |-> [tag |-> "reading", name |-> x],
     inner |-> [t |-> "wrap",
                ctx |-> [tag |-> "want/got", want |-> w, got |-> g],
                inner |-> ErrInconsistentArgCount]]

-----------------------------------------------------------------------------
(* Properties of DumpDir *)

\* C1: the arity is the argument count of the first file in listing order
\* that validates; a later file that validates with another count is not
\* written (the call after its read is the next read or the write of the
\* closing delimiter), and the returned aggregate holds exactly one
\* InconsistentArgCount error for it, 'want <arity>, got <its count>'.
C1_ArityFixedByFirstValid ==
    /\ pc \in {"pre", "dumpLines", "dumpFiles", "sep", "post"}
          => HasValid /\ argCount = Arity
    /\ \A k \in 1..(Len(io) - 1) :
          (/\ io[k].op = "read"
           /\ HasValid
           /\ \E p \in 1..Len(Regulars) :
                  Regulars[p] = io[k].name /\ Mismatched(p))
             => \/ io[k + 1].op = "read"
                \/ /\ io[k + 1].op = "write"
                   /\ io[k + 1].b = IF Arity > 1 THEN <<"}", "}", "\n">>
                                    ELSE <<"}", "\n">>
    /\ (Done /\ ret.t = "agg" /\ HasValid)
          => \A p \in 1..Len(Regulars) :
                 Mismatched(p)
                    => /\ Cardinality(
                              {q \in 1..Len(ret.es) :
                                  ret.es[q] = ArgCountErrorOf(Regulars[p], Arity,
                                                  ArgCountOf(Regulars[p]))}) = 1
                       /\ Cardinality(
                              {q \in 1..Len(ret.es) :
                                  /\ ret.es[q].t = "wrap"
                                  /\ ret.es[q].ctx.name = Regulars[p]
                                  /\ errorsIs(ret.es[q],
                                              ErrInconsistentArgCount)}) = 1

\* A scan returned an aggregate after skipping a file with another count.
C1_Witness ==
    /\ Done /\ ret.t = "agg" /\ HasValid
    /\ \E p \in 1..Len(Regulars) : Mismatched(p)
    /\ \E p \in 1..Len(Regulars) : p > FirstValidPos /\ Regulars[p] \in
           {Matching[q] : q \in 1..Len(Matching)}

\* C2: when no primitive fails and a file validates, DumpDir returns nil
\* exactly if every regular file validated with the arity, otherwise a
\* non-empty aggregate; either way the complete rendering of the valid
\* matching entries has been written.
C2_NilIffAllValid ==
    Completed
       => /\ (ret = NoErr) <=>
                 \A p \in 1..Len(Regulars) :
                     Validates(Regulars[p]) /\ ArgCountOf(Regulars[p]) = Arity
          /\ ret # NoErr => ret.t = "agg" /\ Len(ret.es) >= 1
          /\ out = IF Arity > 1 THEN GroupedRendering ELSE FlatRendering

\* A scan ran to its end and returned an aggregate though it rendered entries.
C2_Witness ==
    /\ Completed
    /\ ret # NoErr
    /\ Len(Matching) >= 2

\* C3: when there are regular files and all of them fail validation, nothing
\* is written and the result is an aggregate that matches EmptyCorpus and
\* holds the validation error of every file in listing order, then
\* EmptyCorpus as its last element.
C3_AllInvalid ==
    (/\ Done
     /\ ~fsys.listErr
     /\ Len(Regulars) >= 1
     /\ \A p \in 1..Len(Regulars) : FailsValidation(Regulars[p]))
       => /\ out = <<>>
          /\ \A k \in 1..Len(io) : io[k].op # "write"
          /\ ret.t = "agg"
          /\ errorsIs(ret, ErrEmptyCorpus)
          /\ Len(ret.es) = Len(Regulars) + 1
          /\ ret.es[Len(ret.es)] = ErrEmptyCorpus
          /\ \A p \in 1..Len(Regulars) :
                 /\ ret.es[p] =
                        [t |-> "wrap",
                         ctx |-> [tag |-> "reading", name |-> Regulars[p]],
                         inner |-> Decoded(Regulars[p]).err]
                 /\ IsValidationError(ret.es[p])

\* A scan of two or more files, none valid, has returned.
C3_Witness ==
    /\ Done
    /\ ~fsys.listErr
    /\ Len(Regulars) >= 2
    /\ \A p \in 1..Len(Regulars) : FailsValidation(Regulars[p])

\* C4: when the listing holds no regular file, DumpDir returns EmptyCorpus
\* right after the listing: no file is read and nothing is written.
C4_NoRegularFiles ==
    (/\ pc # "corpusFiles"
     /\ ~fsys.listErr
     /\ Len(Regulars) = 0)
       => /\ Done
          /\ ret = ErrEmptyCorpus
          /\ Len(io) = 1
          /\ io[1].op = "list"
          /\ out = <<>>

\* A listing that holds only entries that are not regular files was scanned.
C4_Witness ==
    /\ Done
    /\ ~fsys.listErr
    /\ Len(fsys.entries) >= 1
    /\ Len(Regulars) = 0

RECURSIVE WrittenBy(_)
\* The bytes the write calls of evs put into the sink.
WrittenBy(evs) ==
    IF evs = <<>> THEN <<>>
    ELSE (IF Head(evs).op = "write"
          THEN SubSeq(Head(evs).b, 1, Head(evs).n) ELSE <<>>)
             \o WrittenBy(Tail(evs))

\* C5: a failure of the read primitive, in either phase, is the last call
\* DumpDir makes: no later read, no later write, and DumpDir has returned
\* that failure wrapped as 'reading <name>', which is no aggregate, no
\* validation error, and carries nothing captured before it.
C5_ReadFailureAborts ==
    /\ out = WrittenBy(io)
    /\ \A k \in 1..Len(io) :
          (io[k].op = "read" /\ io[k].err # NoErr)
             => /\ k = Len(io)
                /\ Done
                /\ ret = [t |-> "wrap",
                          ctx |-> [tag |-> "reading", name |-> io[k].name],
                          inner |-> io[k].err]
                /\ ~IsValidationError(ret)
                /\ ~errorsIs(ret, ErrEmptyCorpus)

\* A read failed in the second phase after an error had been captured.
C5_Witness ==
    /\ Done
    /\ Len(io) >= 1
    /\ io[Len(io)].op = "read"
    /\ io[Len(io)].err # NoErr
    /\ inFiles
    /\ (errs # <<>> \/ derrs # <<>>)

\* C6: a failed write is the last call DumpDir makes, and DumpDir has
\* returned exactly that failure wrapped as 'writing output': no aggregate,
\* and none of the errors captured before it.
C6_WriteFailureAborts ==
    \A k \in 1..Len(io) :
        (io[k].op = "write" /\ io[k].err # NoErr)
           => /\ k = Len(io)
              /\ Done
              /\ ret = [t |-> "wrap", ctx |-> [tag |-> "writing output"],
                        inner |-> io[k].err]
              /\ ~IsValidationError(ret)
              /\ ~errorsIs(ret, ErrEmptyCorpus)

\* A write failed inside dumpFiles after an error had been captured.
C6_Witness ==
    /\ Done
    /\ Len(io) >= 1
    /\ io[Len(io)].op = "write"
    /\ io[Len(io)].err # NoErr
    /\ inFiles
    /\ (errs # <<>> \/ derrs # <<>>)

\* C7: a validation failure or a count mismatch does not stop the scan:
\* when no primitive fails and a file validates, DumpDir returns only after
\* every regular file was read, and while a file is still unread it has
\* not returned.
C7_ValidationNeverStops ==
    /\ Completed
          => {Reads[q].name : q \in 1..Len(Reads)}
                 = {Regulars[p] : p \in 1..Len(Regulars)}
    /\ (IoOk /\ HasValid /\ ~fsys.listErr /\ Len(Reads) < Len(Regulars))
          => ~Done

\* A scan ran to its end past a file in the middle that failed validation.
C7_Witness ==
    /\ Completed
    /\ Len(Regulars) >= 3
    /\ FirstValidPos = 1
    /\ FailsValidation(Regulars[2])
    /\ ret.t = "agg"

\* C8: with an arity above 1 a completed DumpDir has written exactly '{{',
\* the value lines of the matching entries in listing order with one '}, {'
\* line before each but the first, and '}}'.
C8_GroupedOutput == (Completed /\ Arity > 1) => out = GroupedRendering

\* A grouped rendering of two entries with a third file skipped.
C8_Witness ==
    /\ Completed
    /\ Arity > 1
    /\ Len(Matching) >= 2
    /\ Len(Regulars) > Len(Matching)

\* C9: with arity 1 a completed DumpDir has written exactly '{', one value
\* line per matching entry in listing order with nothing between, and '}'.
C9_FlatOutput == (Completed /\ Arity = 1) => out = FlatRendering

\* A flat rendering of two entries or more.
C9_Witness ==
    /\ Completed
    /\ Arity = 1
    /\ Len(Matching) >= 2

-----------------------------------------------------------------------------
(* Properties of CorpusErrors *)

RECURSIVE KindOf(_)
\* The kind an error has under any number of context wrappings.
KindOf(err) ==
    IF err.t = "wrap" THEN KindOf(err.inner)
    ELSE IF err.t = "plain" THEN err.k
    ELSE err.t

ValidationKinds == {"MalformedEntry", "UnsupportedVersion", "InconsistentArgCount"}

\* C10: Capture of an error that is no aggregate and whose kind is
\* MalformedEntry, UnsupportedVersion or InconsistentArgCount, bare or
\* wrapped, appends it as the new last element, keeps the earlier elements
\* and returns nil.
C10_CaptureAbsorbsValidation ==
    (/\ call.op = "Capture"
     /\ call.err.t \in {"plain", "wrap"}
     /\ KindOf(call.err) \in ValidationKinds)
       => /\ errs = call.recv \o <<call.err>>
          /\ call.ret = NoErr

\* A wrapped InconsistentArgCount was captured by a receiver that held errors.
C10_Witness ==
    /\ call.op = "Capture"
    /\ call.err.t = "wrap"
    /\ KindOf(call.err) = "InconsistentArgCount"
    /\ Len(call.recv) >= 1

FourKinds == ValidationKinds \cup {"EmptyCorpus"}

\* C11: Capture of an EmptyCorpus error, bare or wrapped, appends it and
\* returns the receiver itself: the result is the collection of all earlier
\* elements followed by that error, and is not nil.
C11_CaptureEmptyCorpusReturnsReceiver ==
    (/\ call.op = "Capture"
     /\ call.err.t \in {"plain", "wrap"}
     /\ KindOf(call.err) = "EmptyCorpus")
       => /\ errs = call.recv \o <<call.err>>
          /\ call.ret = [t |-> "agg", es |-> call.recv \o <<call.err>>]

\* EmptyCorpus was captured by a receiver that already held errors.
C11_Witness ==
    /\ call.op = "Capture"
    /\ call.err = ErrEmptyCorpus
    /\ Len(call.recv) >= 2

\* C12: Capture of an error that is no aggregate and has none of the four
\* kinds returns that error and leaves the receiver as it was; Capture of
\* nil returns nil and leaves the receiver as it was.
C12_CapturePassesOpaque ==
    /\ (/\ call.op = "Capture"
        /\ call.err.t \in {"plain", "wrap"}
        /\ KindOf(call.err) \notin FourKinds \cup {"agg", "nil"})
          => call.ret = call.err /\ errs = call.recv
    /\ (call.op = "Capture" /\ call.err = NoErr)
          => call.ret = NoErr /\ errs = call.recv

\* A wrapped read failure was handed to a receiver that held errors.
C12_Witness ==
    /\ call.op = "Capture"
    /\ call.err.t = "wrap"
    /\ KindOf(call.err) = "read failure"
    /\ Len(call.recv) >= 1

\* The elements of es are plain or wrapped plain errors.
Flat(es) ==
    \A x \in 1..Len(es) :
        es[x].t \in {"plain", "wrap"} /\ KindOf(es[x]) \notin {"agg", "nil"}

\* The position of the first element of es that Capture does not absorb
\* silently (EmptyCorpus or an error of no kind), 0 if there is none.
FirstSignal(es) ==
    IF \E p \in 1..Len(es) : KindOf(es[p]) \notin ValidationKinds
    THEN CHOOSE p \in 1..Len(es) :
             /\ KindOf(es[p]) \notin ValidationKinds
             /\ \A q \in 1..(p - 1) : KindOf(es[q]) \in ValidationKinds
    ELSE 0

\* C13: Capture of an aggregate captures its elements in order and stops at
\* the first that signals: the elements before it stay appended, the ones
\* after it are not appended, and its signal is returned (the receiver for
\* EmptyCorpus, which is appended too; the element itself otherwise).  When
\* none signals the result is nil and all elements were appended in order.
C13_CaptureAggregateStopsAtSignal ==
    (/\ call.op = "Capture"
     /\ call.err.t = "agg"
     /\ Flat(call.err.es))
       => LET es == call.err.es
              p  == FirstSignal(es)
          IN  IF p = 0
              THEN call.ret = NoErr /\ errs = call.recv \o es
              ELSE IF KindOf(es[p]) = "EmptyCorpus"
              THEN /\ errs = call.recv \o SubSeq(es, 1, p)
                   /\ call.ret = [t |-> "agg", es |-> errs]
              ELSE /\ errs = call.recv \o SubSeq(es, 1, p - 1)
                   /\ call.ret = es[p]

\* An aggregate was captured whose signalling element had elements before
\* and after it.
C13_Witness ==
    /\ call.op = "Capture"
    /\ call.err.t = "agg"
    /\ Flat(call.err.es)
    /\ FirstSignal(call.err.es) >= 2
    /\ FirstSignal(call.err.es) < Len(call.err.es)
    /\ Len(call.recv) >= 1

RECURSIVE InChain(_, _)
\* Error x matches the plain or wrapped target t: t is x or is in the chain
\* of errors that x wraps.
InChain(x, t) == x = t \/ (x.t = "wrap" /\ InChain(x.inner, t))

\* Some element of the collection es matches t.
SomeElementMatches(es, t) == \E y \in 1..Len(es) : InChain(es[y], t)

\* C14: for a non-empty receiver and a non-empty aggregate target, the
\* receiver matches exactly if every element of the target matches some
\* element of the receiver, whatever the order and the repetitions.
C14_AggregateTargetCovered ==
    (/\ call.op = "Is"
     /\ call.target.t = "agg"
     /\ Len(call.recv) >= 1
     /\ Len(call.target.es) >= 1)
       => /\ call.ret <=>
                 \A x \in 1..Len(call.target.es) :
                     SomeElementMatches(call.recv, call.target.es[x])
          /\ call.generic <=> call.ret

\* A receiver of two errors was matched against the same two in the other
\* order with one repeated.
C14_Witness ==
    /\ call.op = "Is"
    /\ call.recv = <<ErrMalformedEntry, ErrUnsupportedVersion>>
    /\ call.target =
           [t |-> "agg",
            es |-> <<ErrUnsupportedVersion, ErrMalformedEntry,
                     ErrUnsupportedVersion>>]
    /\ call.ret

\* C15: when the target is an aggregate and the receiver or the target is
\* empty, the receiver matches exactly if both are empty.
C15_EmptyMatchesOnlyEmpty ==
    (/\ call.op = "Is"
     /\ call.target.t = "agg"
     /\ (Len(call.recv) = 0 \/ Len(call.target.es) = 0))
       => /\ call.ret <=> (Len(call.recv) = 0 /\ Len(call.target.es) = 0)
          /\ call.generic <=> call.ret

\* A receiver that holds errors was matched against the empty aggregate.
C15_Witness ==
    /\ call.op = "Is"
    /\ call.target = [t |-> "agg", es |-> <<>>]
    /\ Len(call.recv) >= 2
    /\ ~call.generic

\* C16: errors.Is of an aggregate against a target that is no aggregate
\* (Is on the aggregate, then on each Unwrap of it) is true exactly if some
\* element of the aggregate, at any position, matches the target.
C16_GenericIsAnyElement ==
    (call.op = "Is" /\ call.target.t \in {"plain", "wrap"})
       => (call.generic <=> SomeElementMatches(call.recv, call.target))

\* The target matched an element that is not the last one.
C16_Witness ==
    /\ call.op = "Is"
    /\ call.target.t \in {"plain", "wrap"}
    /\ call.generic
    /\ Len(call.recv) >= 2
    /\ ~InChain(call.recv[Len(call.recv)], call.target)

RECURSIVE UnwrapsToNil(_)
\* How many Unwrap calls lead from err to nil.
UnwrapsToNil(err) ==
    IF err = NoErr THEN 0 ELSE 1 + UnwrapsToNil(errorsUnwrap(err))

-----------------------------------------------------------------------------
(* Properties of the failure of the listing *)

\* C20: when the listing of the directory fails, DumpDir returns at once
\* with that failure itself, neither wrapped nor in an aggregate; the listing
\* is its only call of a primitive, so no file is read and nothing is
\* written.
C20_ListingFailureUnchanged ==
    (fsys.listErr /\ pc # "corpusFiles")
       => /\ Done
          /\ ret = [t |-> "plain", k |-> "listing failure"]
          /\ Len(io) = 1
          /\ io[1].op = "list"
          /\ io[1].err = ret
          /\ out = <<>>

\* The listing failed for a directory that holds a valid file.
C20_Witness ==
    /\ Done
    /\ fsys.listErr
    /\ HasValid
    /\ ret.t = "plain"

-----------------------------------------------------------------------------
(* Properties of the command *)

\* The result err matches one of the kinds ks: err, or an element of err
\* when it is an aggregate, has that kind under any context.
ResultMatches(err, ks) ==
    IF err.t = "agg" THEN \E x \in 1..Len(err.es) : KindOf(err.es[x]) \in ks
    ELSE KindOf(err) \in ks

\* C19: the exit code of the command is 0 for a nil result, 2 when the
\* result matches EmptyCorpus, also when the aggregate holds validation
\* errors as well, 1 when it matches a validation kind and not EmptyCorpus,
\* 3 for every other error; and when the exit code is 1 the complete
\* rendering of at least one entry has been written.
C19_ExitCodeByPriority ==
    pc = "exit"
       => /\ exitCode =
                 IF ret = [t |-> "nil"] THEN 0
                 ELSE IF ResultMatches(ret, {"EmptyCorpus"}) THEN 2
                 ELSE IF ResultMatches(ret, ValidationKinds) THEN 1
                 ELSE 3
          /\ exitCode = 1
                 => /\ HasValid
                    /\ Len(Matching) >= 1
                    /\ out = IF Arity > 1 THEN GroupedRendering
                             ELSE FlatRendering

\* The command exited with 2 for an aggregate that holds a validation error
\* before its EmptyCorpus.
C19_Witness ==
    /\ pc = "exit"
    /\ exitCode = 2
    /\ ret.t = "agg"
    /\ Len(ret.es) >= 2
    /\ ResultMatches(ret, ValidationKinds)

-----------------------------------------------------------------------------
(* Properties of the reader *)

\* The file readLines was called on was read, and these are its bytes.
WasRead == call.op = "readLines" /\ ~fsys.entries[1].fails

Content == fsys.entries[1].data

HasLineFeed(b) == \E p \in 1..Len(b) : b[p] = "\n"

RECURSIVE CutLines(_, _)
\* The lines of b, cur being the bytes of the line at hand: a line ends at
\* a line feed or at the end of b.
CutLines(b, cur) ==
    IF b = <<>> THEN <<cur>>
    ELSE IF Head(b) = "\n" THEN <<cur>> \o CutLines(Tail(b), <<>>)
    ELSE CutLines(Tail(b), Append(cur, Head(b)))

VersionMarker ==
    <<"g", "o", " ", "t", "e", "s", "t", " ", "f", "u", "z", "z", " ", "v", "1">>

Blank == {" ", "\t", "\n", "\r", "\f"}

\* v without the white space around it.
Trimmed(v) ==
    LET solid == {p \in 1..Len(v) : v[p] \notin Blank}
    IN  IF solid = {} THEN <<>>
        ELSE SubSeq(v, CHOOSE p \in solid : \A q \in solid : p <= q,
                       CHOOSE p \in solid : \A q \in solid : q <= p)

\* The lines of b after the first that are not blank, trimmed, in order.
ExpectedValues(b) ==
    LET rest == Tail(CutLines(b, <<>>))
    IN  SelectSeq([k \in 1..Len(rest) |-> Trimmed(rest[k])],
                  LAMBDA v : v # <<>>)

\* C21: content without a line feed, the version marker alone included, is
\* MalformedEntry and never UnsupportedVersion, whatever its only line is.
C21_LineCountBeforeVersion ==
    (WasRead /\ ~HasLineFeed(Content))
       => /\ call.err = [t |-> "plain", k |-> "MalformedEntry"]
          /\ call.lines = <<>>

\* The version marker without a line feed was read, and an unknown line
\* without one could be.
C21_Witness ==
    /\ WasRead
    /\ Content = VersionMarker
    /\ KindOf(call.err) = "MalformedEntry"

\* C22: for content with a line feed the result is UnsupportedVersion
\* exactly if line 1 is neither the version marker nor the marker followed
\* by one carriage return, whatever the other lines are; so the file is
\* accepted only with one of these two first lines.
C22_VersionLineExact ==
    (WasRead /\ HasLineFeed(Content))
       => LET line1 == Head(CutLines(Content, <<>>))
              ok    == line1 \in {VersionMarker, VersionMarker \o <<"\r">>}
          IN  /\ KindOf(call.err) = "UnsupportedVersion" <=> ~ok
              /\ call.err = [t |-> "nil"] => ok
              /\ ~ok => call.lines = <<>>

\* A version marker with padding before values that would be valid was
\* turned down.
C22_Witness ==
    /\ WasRead
    /\ HasLineFeed(Content)
    /\ Head(CutLines(Content, <<>>)) = VersionMarker \o <<" ">>
    /\ ExpectedValues(Content) # <<>>
    /\ KindOf(call.err) = "UnsupportedVersion"

\* C23: with a valid version line the result is MalformedEntry exactly if
\* no line after line 1 is non-blank; otherwise the read succeeds with
\* exactly the non-blank lines after line 1, trimmed, in their order: at
\* least one value, none of them empty.
C23_ValuesTrimmedInOrder ==
    (/\ WasRead
     /\ HasLineFeed(Content)
     /\ Head(CutLines(Content, <<>>))
            \in {VersionMarker, VersionMarker \o <<"\r">>})
       => /\ call.err = [t |-> "plain", k |-> "MalformedEntry"]
                 <=> ExpectedValues(Content) = <<>>
          /\ ExpectedValues(Content) # <<>>
                 => /\ call.err = [t |-> "nil"]
                    /\ call.lines = ExpectedValues(Content)
          /\ call.err = [t |-> "nil"]
                 => /\ Len(call.lines) >= 1
                    /\ \A k \in 1..Len(call.lines) : Len(call.lines[k]) >= 1

\* Two values were read from a file with a blank line and padding.
C23_Witness ==
    /\ WasRead
    /\ call.err = [t |-> "nil"]
    /\ Len(call.lines) = 2
    /\ Len(CutLines(Content, <<>>)) >= 4
    /\ \E k \in 1..Len(CutLines(Content, <<>>)) :
          /\ k >= 2
          /\ CutLines(Content, <<>>)[k] # Trimmed(CutLines(Content, <<>>)[k])
          /\ Trimmed(CutLines(Content, <<>>)[k]) # <<>>

-----------------------------------------------------------------------------
(* Properties of the whole scan *)

IsPrefix(a, b) == Len(a) <= Len(b) /\ a = SubSeq(b, 1, Len(a))

\* The rendering of all matching entries, and its last line.
FullRendering == IF Arity > 1 THEN GroupedRendering ELSE FlatRendering

ClosingLine == IF Arity > 1 THEN <<"}", "}", "\n">> ELSE <<"}", "\n">>

\* The rendering without its closing line.
OpenRendering ==
    SubSeq(FullRendering, 1, Len(FullRendering) - Len(ClosingLine))

IsListingFailure(err) == err = [t |-> "plain", k |-> "listing failure"]

IsReadFailure(err) ==
    /\ err.t = "wrap"
    /\ err.ctx.tag = "reading"
    /\ err.inner = [t |-> "plain", k |-> "read failure"]

IsWriteFailure(err) ==
    /\ err.t = "wrap"
    /\ err.ctx.tag = "writing output"
    /\ err.inner = [t |-> "plain", k |-> "write failure"]

\* The result is nil or an aggregate without EmptyCorpus.
IsNilOrValidationAggregate(err) ==
    \/ err = [t |-> "nil"]
    \/ err.t = "agg" /\ ~ResultMatches(err, {"EmptyCorpus"})

\* The three shapes of the output.
EmptyOut == out = <<>>

CompleteOut == HasValid /\ out = FullRendering

UnterminatedOut == out = <<>> \/ (HasValid /\ IsPrefix(out, OpenRendering))

\* C24 as stated: when DumpDir has returned the output is empty, complete
\* or an unterminated prefix; empty when the result matches EmptyCorpus or
\* is a listing failure; complete exactly when the result is nil or an
\* aggregate without EmptyCorpus; an unterminated prefix that is not empty
\* only when the result is a read or write failure.
C24_ThreeShapesAsStated ==
    Done
       => /\ EmptyOut \/ CompleteOut \/ UnterminatedOut
          /\ (ResultMatches(ret, {"EmptyCorpus"}) \/ IsListingFailure(ret))
                 => EmptyOut
          /\ CompleteOut <=> IsNilOrValidationAggregate(ret)
          /\ (UnterminatedOut /\ ~EmptyOut)
                 => (IsReadFailure(ret) \/ IsWriteFailure(ret))

\* C24 (amended): when DumpDir has returned, the output is empty if the
\* result matches EmptyCorpus or is a listing failure; it is the complete
\* rendering if the result is nil or an aggregate without EmptyCorpus; it is
\* an unterminated prefix of the rendering if the result is a read failure;
\* if the result is a write failure it is a prefix of the rendering that is
\* unterminated unless the failed write is that of the closing line, of
\* which the writer has then taken a part or all.  No other result occurs.
C24_OutputShapeByResult ==
    Done
       => /\ \/ ResultMatches(ret, {"EmptyCorpus"})
             \/ IsListingFailure(ret)
             \/ IsNilOrValidationAggregate(ret)
             \/ IsReadFailure(ret)
             \/ IsWriteFailure(ret)
          /\ (ResultMatches(ret, {"EmptyCorpus"}) \/ IsListingFailure(ret))
                 => EmptyOut
          /\ IsNilOrValidationAggregate(ret) => CompleteOut
          /\ IsReadFailure(ret) => UnterminatedOut
          /\ IsWriteFailure(ret)
                 => /\ HasValid
                    /\ IsPrefix(out, FullRendering)
                    /\ ~UnterminatedOut
                           => /\ io[Len(io)].op = "write"
                              /\ io[Len(io)].b = ClosingLine
                              /\ io[Len(io)].n >= 1
                              /\ io[Len(io)].err # [t |-> "nil"]
          /\ (UnterminatedOut /\ ~EmptyOut)
                 => (IsReadFailure(ret) \/ IsWriteFailure(ret))

\* The write of the closing line failed after the writer took a part of it.
C24_Witness ==
    /\ Done
    /\ IsWriteFailure(ret)
    /\ HasValid
    /\ ~UnterminatedOut
    /\ out # FullRendering

\* The regular files that are not rendered, in listing order.
NotMatching ==
    SelectSeq(Regulars, LAMBDA x : ~(Validates(x) /\ ArgCountOf(x) = Arity))

\* C25: in a scan that completes without a failure of a primitive and with
\* a valid file, the files read are the regular files, each once, in
\* listing order; every regular file is either rendered or reported by one
\* element of the returned aggregate, so the two counts add up to the
\* number of regular files; and the elements are in the listing order of
\* their files.
C25_EveryFileOnce ==
    Completed
       => LET es == IF ret = [t |-> "nil"] THEN <<>> ELSE ret.es
          IN  /\ [k \in 1..Len(Reads) |-> Reads[k].name] = Regulars
              /\ out = FullRendering
              /\ Len(Matching) + Len(es) = Len(Regulars)
              /\ \A k \in 1..Len(es) :
                    es[k].t = "wrap" /\ es[k].ctx.tag = "reading"
              /\ [k \in 1..Len(es) |-> es[k].ctx.name] = NotMatching

\* The first valid file stands between two files that are reported.
C25_Witness ==
    /\ Completed
    /\ Len(Regulars) = 3
    /\ FirstValidPos = 2
    /\ ret.t = "agg"
    /\ Len(ret.es) = 2

\* The collection es holds validation errors, bare or with context, and
\* EmptyCorpus as its last element at most.
WellFormed(es) ==
    \A k \in 1..Len(es) :
        /\ es[k].t \in {"plain", "wrap"}
        /\ KindOf(es[k]) \in FourKinds
        /\ KindOf(es[k]) = "EmptyCorpus" => k = Len(es)

\* The same of every collection of the scan and of the result.
AggregatesWellFormed ==
    /\ WellFormed(errs)
    /\ WellFormed(ferrs)
    /\ WellFormed(derrs)
    /\ (Done /\ ret.t = "agg") => (WellFormed(ret.es) /\ Len(ret.es) >= 1)

\* A step keeps the elements of every collection and their order.
GrowsByAppending ==
    /\ IsPrefix(errs, errs')
    /\ IsPrefix(ferrs, ferrs')
    /\ IsPrefix(derrs, derrs')

\* C26: at every point of a scan the collections of DumpDir,
\* firstValidFileLines and dumpFiles, and every aggregate DumpDir returns,
\* hold only MalformedEntry, UnsupportedVersion and InconsistentArgCount
\* errors and at most one EmptyCorpus, as the last element; no failure of a
\* primitive is an element; every step only appends; a returned aggregate is
\* not empty.
C26_AggregateHoldsKindsOnly ==
    []AggregatesWellFormed /\ [][GrowsByAppending]_vars

\* A read failure ended a scan that had captured a validation error.
C26_Witness ==
    /\ Done
    /\ IsReadFailure(ret)
    /\ Len(errs) >= 1
    /\ KindOf(errs[1]) \in ValidationKinds

-----------------------------------------------------------------------------
(* Properties of the matching between aggregates *)

\* C27: for aggregates of kinds and kinds with context, errors.Is of one
\* aggregate against another is reflexive and transitive, and it is not
\* symmetric: the aggregate of one kind with context matches the aggregate
\* of that bare kind, which does not match it.
C27_MatchingIsPreorder ==
    call.op = "match"
       => /\ \A a \in 1..3 : call.m[a][a]
          /\ \A a, b, c \in 1..3 :
                (call.m[a][b] /\ call.m[b][c]) => call.m[a][c]
          /\ \A a, b \in 1..3 :
                (/\ Len(aggs[a]) = 1
                 /\ Len(aggs[b]) = 1
                 /\ aggs[a][1].t = "wrap"
                 /\ aggs[b][1] = [t |-> "plain", k |-> KindOf(aggs[a][1])])
                   => (call.m[a][b] /\ ~call.m[b][a])

\* A kind with context twice, with context once and bare: each matches the
\* next and the first the last, and none of it the other way round.
C27_Witness ==
    /\ call.op = "match"
    /\ Len(aggs[1]) = 2
    /\ aggs[2] # aggs[3]
    /\ aggs[3] = <<[t |-> "plain", k |-> "MalformedEntry"]>>
    /\ Len(aggs[2]) = 1
    /\ aggs[2][1].t = "wrap"
    /\ call.m[1][2]
    /\ call.m[2][3]
    /\ call.m[1][3]
    /\ ~call.m[3][2]
    /\ ~call.m[2][1]

====
